---- MODULE Spec2Model ----
(***************************************************************************)
(* Steam presence -> Discord relay (zjdaniels1985/steam-bot-discord).      *)
(*                                                                         *)
(* The model covers the SQLite store (src/src/database.js), the Steam      *)
(* event handlers that maintain the friends cache and dispatch presence    *)
(* events (src/src/steam-manager.js), the presence pipeline                *)
(* SteamDiscordBot.handlePresenceChange (src/src/logger.js), the notifier  *)
(* DiscordManager.sendPresenceUpdate (src/src/discord-manager.js) and the  *)
(* slash-command handlers (src/unnamed/part_000, commands/steam.js).       *)
(*                                                                         *)
(* JavaScript runs one callback at a time, and better-sqlite3 is           *)
(* synchronous: a handler is atomic from its start to its first await and  *)
(* from one await to the next.  Every action below is one such run.        *)
(* Date.now() and SQLite's strftime('%s','now') read the same wall clock,  *)
(* the variable now (whole seconds); one run reads one value of it.  The   *)
(* presence pipeline reads the clock, so time passes in the model when a   *)
(* presence event arrives: the event carries its arrival time.  The code   *)
(* generator of login() reads it too; SpecLogin lets it advance there.     *)
(* The store is a file that outlives the process: a run starts with the    *)
(* links and destinations that earlier runs left in it.                    *)
(* The Steam client delivers persona events only after logon, and start()  *)
(* constructs the DiscordManager in the continuation of the logon, before  *)
(* the next network event: the notifier object exists whenever a presence  *)
(* event is handled.  Whether it can deliver is part of each outcome.      *)
(* The columns linked_at, updated_at and created_at are written but never  *)
(* read by any decision of the program and are left out.                   *)
(*                                                                         *)
(* The specifications share the variables.  Spec is the running bot: its   *)
(* event handlers and commands.  SpecStore calls the write methods of      *)
(* DatabaseManager directly.  SpecLife is the process from bot.start() to  *)
(* its exit: start-up, the Steam login with its listeners, drops, signals  *)
(* and the shutdown sequence (SpecLifeFair adds the fairness of the Steam  *)
(* client's relogin).  SpecFault is the running bot whose store calls can  *)
(* throw inside the presence pipeline.  SpecStop is the running bot with   *)
(* a termination signal arriving among its presence events.  SpecFriends   *)
(* is the friendship set under the relationship events and the drops of    *)
(* the session.  SpecLogin is login() with time passing between the logOn  *)
(* call and the Steam Guard challenges.  SpecStartup is start() with the   *)
(* Steam events that arrive while it awaits the Discord login.             *)
(***************************************************************************)
EXTENDS Integers, Sequences, FiniteSets, TLC

\* ------------------------------------------------------------------ bounds
MaxSteps == 5

\* --------------------------------------------------------------- constants
CooldownSeconds == 300

\* ------------------------------------------------------------ input domains
SteamIds == {"76561198000000001", "76561198000000002"}
DiscordIds == {"u1", "u2"}
Guilds == {"g1", "g2"}
\* The text channels of each guild that can be picked in /steam setchannel.
ChannelsOf == [g \in Guilds |-> IF g = "g1" THEN {"c11", "c12"} ELSE {"c21"}]

\* Instants at which presence events arrive: the start, the last second of
\* a cooldown that started then, and the first second after it.
Times == {0, CooldownSeconds - 1, CooldownSeconds}

UNDEFINED == "undefined"
NULL == "null"
UndefinedNum == -1

\* Raw persona objects delivered by the Steam client with a 'user' event.
RawUsers ==
  { [player_name |-> "Alice", persona_state |-> 1, gameid |-> UNDEFINED, game_name |-> UNDEFINED],
    [player_name |-> "Alicia", persona_state |-> 1, gameid |-> UNDEFINED, game_name |-> UNDEFINED],
    [player_name |-> "Alice", persona_state |-> 1, gameid |-> "440", game_name |-> "Game A"],
    [player_name |-> UNDEFINED, persona_state |-> UndefinedNum, gameid |-> UNDEFINED, game_name |-> UNDEFINED] }

\* EFriendRelationship values the Steam client reports.
Relationships == {"None", "Blocked", "Friend"}

\* Text a user can type as /steam link identifier, by the shape the parser
\* tells apart, with the digits it would extract.
Identifiers ==
  [form : {"id64"}, digits : SteamIds]
    \cup { [form |-> "profileUrl", digits |-> "76561198000000001"],
           [form |-> "customUrl", digits |-> ""],
           [form |-> "other", digits |-> ""] }

\* Outcomes of one delivery attempt inside sendPresenceUpdate.
DeliveryOutcomes == {"sent", "noChannel", "error"}

VARIABLES
  user_mappings,   \* set of rows [discord_id, steam_id]
  server_configs,  \* sequence of rows [guild_id, update_channel_id], rowid order
  rate_limits,     \* steam_id -> [last_update, update_count], partial
  steam_cache,     \* steam_id -> row, partial
  friendsCache,    \* SteamManager.friendsCache
  now,             \* wall clock, seconds
  tasks,           \* one record per started fanout, in start order
  steps,           \* number of handler runs so far
  last,            \* the handler that ran last, with its inputs and its reply
  config,          \* what the environment variables configure
  pc,              \* the position of SteamDiscordBot.start()
  bot,             \* the fields of SteamDiscordBot
  steam,           \* SteamManager.isLoggedIn, its client and its login() promise
  process          \* the Node process: listeners, teardown done so far, exit

vars == <<user_mappings, server_configs, rate_limits, steam_cache,
          friendsCache, now, tasks, steps, last, config, pc, bot, steam, process>>

\* The lifecycle of the process, which no handler of a running bot changes.
life == <<config, pc, bot, steam, process>>

db == <<user_mappings, server_configs, rate_limits, steam_cache>>

\* ------------------------------------------------------------- database.js
\* A looked-up row is a set: {} when the statement returns undefined.
getUserMapping(discordId) == {m \in user_mappings : m.discord_id = discordId}

\* Faulty variant: the statement lost its WHERE clause.
getMappingBySteamId_NoWhere(steamId) == user_mappings

getMappingBySteamId(steamId) == {m \in user_mappings : m.steam_id = steamId}

getAllMappings == user_mappings

\* INSERT OR REPLACE removes every row that conflicts on the primary key
\* discord_id or on the UNIQUE steam_id, then inserts.
linkUser(discordId, steamId) ==
  {m \in user_mappings : m.discord_id # discordId /\ m.steam_id # steamId}
    \cup {[discord_id |-> discordId, steam_id |-> steamId]}

\* Faulty variant: DELETE without its WHERE clause.
unlinkUser_All(discordId) == {}

unlinkUser(discordId) == {m \in user_mappings : m.discord_id # discordId}

\* Faulty variant: INSERT OR IGNORE, the first destination of a guild stays.
setUpdateChannel_Ignore(guildId, channelId) ==
  IF \E i \in DOMAIN server_configs : server_configs[i].guild_id = guildId
    THEN server_configs
    ELSE Append(server_configs,
                [guild_id |-> guildId, update_channel_id |-> channelId])

setUpdateChannel(guildId, channelId) ==
  Append(SelectSeq(server_configs, LAMBDA r : r.guild_id # guildId),
         [guild_id |-> guildId, update_channel_id |-> channelId])

getAllServerConfigs == server_configs

\* Date.now() in seconds, read while a handler runs.
DateNow == now'

\* Faulty variant: the elapsed time is taken in milliseconds.
canUpdate_Millis(steamId, cooldownSeconds) ==
  IF steamId \notin DOMAIN rate_limits
    THEN TRUE
    ELSE (DateNow - rate_limits[steamId].last_update) * 1000 >= cooldownSeconds

\* Faulty variant: the comparison is strict.
canUpdate_Strict(steamId, cooldownSeconds) ==
  IF steamId \notin DOMAIN rate_limits
    THEN TRUE
    ELSE (DateNow - rate_limits[steamId].last_update) > cooldownSeconds

canUpdate(steamId, cooldownSeconds) ==
  IF steamId \notin DOMAIN rate_limits
    THEN TRUE
    ELSE (DateNow - rate_limits[steamId].last_update) >= cooldownSeconds

\* Faulty variant: the count is not carried over, every update writes 1.
recordUpdate_CountReset(steamId) ==
  [s \in DOMAIN rate_limits \cup {steamId} |->
     IF s = steamId
       THEN [last_update |-> DateNow, update_count |-> 1]
       ELSE rate_limits[s]]

recordUpdate(steamId) ==
  [s \in DOMAIN rate_limits \cup {steamId} |->
     IF s = steamId
       THEN [last_update |-> DateNow,
             update_count |-> (IF steamId \in DOMAIN rate_limits
                                 THEN rate_limits[steamId].update_count
                                 ELSE 0) + 1]
       ELSE rate_limits[s]]

\* Faulty variant: game name and game id are bound to each other's column.
updateSteamCache_SwappedGame(steamId, data) ==
  [s \in DOMAIN steam_cache \cup {steamId} |->
     IF s = steamId
       THEN [persona_name |-> data.personaName, game_name |-> data.gameId,
             game_id |-> data.gameName, persona_state |-> data.personaState,
             last_updated |-> DateNow]
       ELSE steam_cache[s]]

updateSteamCache(steamId, data) ==
  [s \in DOMAIN steam_cache \cup {steamId} |->
     IF s = steamId
       THEN [persona_name |-> data.personaName, game_name |-> data.gameName,
             game_id |-> data.gameId, persona_state |-> data.personaState,
             last_updated |-> DateNow]
       ELSE steam_cache[s]]

getSteamCache(steamId) ==
  IF steamId \in DOMAIN steam_cache THEN {steam_cache[steamId]} ELSE {}

\* -------------------------------------------------------- steam-manager.js
\* Faulty variant: an empty cache is taken as "not synced yet" and lets
\* every account through.
isFriend_UnsyncedAllowed(steamId) == friendsCache = {} \/ steamId \in friendsCache

isFriend(steamId) == steamId \in friendsCache

\* Faulty variant: the 'user' handler has no friend filter.
Admitted_All(steamId) == TRUE

\* The 'user' handler passes on only the events of accounts in the cache.
Admitted(steamId) == steamId \in friendsCache

\* The 'friendRelationship' handler: add on Friend, delete on None, and no
\* branch for any other relationship.
friendRelationship(steamId, relationship) ==
  IF relationship = "Friend" THEN friendsCache \cup {steamId}
  ELSE IF relationship = "None" THEN friendsCache \ {steamId}
  ELSE friendsCache

updateFriendsCache(myFriends) == {s \in DOMAIN myFriends : myFriends[s] = "Friend"}

\* x || d for a string field and for a numeric field.
OrStr(x, d) == IF x \in {UNDEFINED, NULL, ""} THEN d ELSE x
OrNum(x, d) == IF x \in {UndefinedNum, 0} THEN d ELSE x

PresenceData(steamId, user) ==
  [steamId |-> steamId,
   personaName |-> OrStr(user.player_name, "Unknown"),
   personaState |-> OrNum(user.persona_state, 0),
   gameId |-> OrStr(user.gameid, NULL),
   gameName |-> OrStr(user.game_name, NULL)]

\* ------------------------------------------------------ discord-manager.js
\* The state names of createPresenceEmbed, for the states 0..6.
StateNames ==
  <<"Offline", "Online", "Busy", "Away", "Snooze", "Looking to trade",
    "Looking to play">>

\* stateNames[x]: undefined for a key the table does not have.
stateNames(x) == IF x \in 0..(Len(StateNames) - 1) THEN StateNames[x + 1] ELSE UNDEFINED

\* object.field in JavaScript: undefined when the object has no such field.
Prop(object, field, undefined) ==
  IF field \in DOMAIN object THEN object[field] ELSE undefined

\* createPresenceEmbed: the parts of the description. previousState is the
\* row getSteamCache returned, as a set: empty when there was none.
createPresenceEmbed(presenceData, previousState) ==
  LET currentState == OrStr(stateNames(presenceData.personaState), "Unknown")
      previous == CHOOSE row \in previousState : TRUE
      previousStateName ==
        IF previousState = {} THEN NULL
        ELSE OrStr(stateNames(Prop(previous, "personaState", UndefinedNum)), "Unknown")
      previousGame ==
        IF previousState = {} THEN UNDEFINED
        ELSE OrStr(Prop(previous, "gameName", UNDEFINED), UNDEFINED)
      playing == OrStr(presenceData.gameName, NULL)
  IN [status |-> currentState,
      was |-> IF previousStateName # NULL /\ previousStateName # currentState
                THEN previousStateName ELSE NULL,
      playing |-> playing,
      previously |-> IF playing # NULL /\ previousGame # UNDEFINED
                        /\ previousGame # presenceData.gameName
                       THEN previousGame ELSE NULL,
      stopped |-> IF playing = NULL /\ previousGame # UNDEFINED
                    THEN previousGame ELSE NULL]

\* Faulty variant: an error inside sendPresenceUpdate is not caught.
sendPresenceUpdate_Uncaught(outcome) ==
  IF outcome = "sent" THEN "true"
  ELSE IF outcome = "error" THEN "throw"
  ELSE "false"

\* What the fanout loop sees of one sendPresenceUpdate call: every failure
\* inside it is caught and turned into false.
sendPresenceUpdate(outcome) ==
  IF outcome = "sent" THEN "true" ELSE "false"

\* --------------------------------------------------- commands/steam.js
ParseError == "ParseError"

parseSteamIdentifier(identifier) ==
  IF identifier.form = "id64" THEN identifier.digits
  ELSE IF identifier.form = "profileUrl" THEN identifier.digits
  ELSE ParseError

\* ----------------------------------------------------------------- logger.js
\* The fanout loop of handlePresenceChange from one await to the next.  A
\* task is one run of the loop: configs is the list read by
\* getAllServerConfigs when it started, invoked the channels for which
\* sendPresenceUpdate has been called, results what those calls returned.
\* Faulty variant: all sends are issued at once and awaited together.
NewTask_AllAtOnce(presenceData, previousState, mapping, serverConfigs) ==
  LET channels == [i \in 1..Len(serverConfigs) |-> serverConfigs[i].update_channel_id]
  IN [steamId |-> presenceData.steamId,
      discordId |-> mapping.discord_id,
      time |-> DateNow,
      presenceData |-> presenceData,
      previousState |-> previousState,
      configs |-> channels,
      invoked |-> channels,
      results |-> <<>>,
      sentCount |-> 0,
      status |-> IF channels = <<>> THEN "done" ELSE "awaiting"]

NewTask(presenceData, previousState, mapping, serverConfigs) ==
  LET channels == [i \in 1..Len(serverConfigs) |-> serverConfigs[i].update_channel_id]
  IN [steamId |-> presenceData.steamId,
      discordId |-> mapping.discord_id,
      time |-> DateNow,
      presenceData |-> presenceData,
      previousState |-> previousState,
      configs |-> channels,
      invoked |-> IF channels = <<>> THEN <<>> ELSE <<channels[1]>>,
      results |-> <<>>,
      sentCount |-> 0,
      status |-> IF channels = <<>> THEN "done" ELSE "awaiting"]

\* The loop resumes with the value of the awaited call: "true", "false", or
\* "throw" when the call rejects (then the catch of handlePresenceChange
\* ends the loop).
FanoutResume(task, returned) ==
  LET n == Len(task.invoked)
      more == returned # "throw" /\ n < Len(task.configs)
  IN [task EXCEPT
        !.results = Append(@, returned),
        !.sentCount = IF returned = "true" THEN @ + 1 ELSE @,
        !.invoked = IF more THEN Append(@, task.configs[n + 1]) ELSE @,
        !.status = IF more THEN "awaiting" ELSE "done"]

\* Faulty variant: the display name counts as a change too.
Changed_NameToo(previousState, presenceData) ==
  \/ previousState = {}
  \/ \E prev \in previousState :
       \/ prev.persona_state # presenceData.personaState
       \/ prev.game_name # presenceData.gameName
       \/ prev.persona_name # presenceData.personaName

\* Faulty variant: only the persona state is compared.
Changed_StateOnly(previousState, presenceData) ==
  \/ previousState = {}
  \/ \E prev \in previousState :
       prev.persona_state # presenceData.personaState

\* Does the event differ from the cached row in state or game?
Changed(previousState, presenceData) ==
  \/ previousState = {}
  \/ \E prev \in previousState :
       \/ prev.persona_state # presenceData.personaState
       \/ prev.game_name # presenceData.gameName

\* Faulty variant: an event is dropped while sends for the same account are
\* still awaited.
handlePresenceChange_SkipInFlight(presenceData) ==
  LET mapping == getMappingBySteamId(presenceData.steamId)
      previousState == getSteamCache(presenceData.steamId)
  IN IF \E i \in DOMAIN tasks : /\ tasks[i].steamId = presenceData.steamId
                                /\ tasks[i].status = "awaiting"
       THEN UNCHANGED <<db, tasks>>
     ELSE IF mapping = {}
       THEN UNCHANGED <<db, tasks>>
     ELSE IF ~Changed(previousState, presenceData)
       THEN UNCHANGED <<db, tasks>>
     ELSE IF ~canUpdate(presenceData.steamId, CooldownSeconds)
       THEN /\ steam_cache' = updateSteamCache(presenceData.steamId, presenceData)
            /\ UNCHANGED <<user_mappings, server_configs, rate_limits, tasks>>
     ELSE /\ steam_cache' = updateSteamCache(presenceData.steamId, presenceData)
          /\ rate_limits' = recordUpdate(presenceData.steamId)
          /\ tasks' = Append(tasks, NewTask(presenceData, previousState,
                                            CHOOSE m \in mapping : TRUE,
                                            getAllServerConfigs))
          /\ UNCHANGED <<user_mappings, server_configs>>

\* Faulty variant: recordUpdate is called after the loop of sends, so the
\* charge is not made in the run that passed the check.
handlePresenceChange_ChargeAfterSends(presenceData) ==
  LET mapping == getMappingBySteamId(presenceData.steamId)
      previousState == getSteamCache(presenceData.steamId)
  IN IF mapping = {}
       THEN UNCHANGED <<db, tasks>>
     ELSE IF ~Changed(previousState, presenceData)
       THEN UNCHANGED <<db, tasks>>
     ELSE IF ~canUpdate(presenceData.steamId, CooldownSeconds)
       THEN /\ steam_cache' = updateSteamCache(presenceData.steamId, presenceData)
            /\ UNCHANGED <<user_mappings, server_configs, rate_limits, tasks>>
     ELSE /\ steam_cache' = updateSteamCache(presenceData.steamId, presenceData)
          /\ tasks' = Append(tasks, NewTask(presenceData, previousState,
                                            CHOOSE m \in mapping : TRUE,
                                            getAllServerConfigs))
          /\ UNCHANGED <<user_mappings, server_configs, rate_limits>>

handlePresenceChange(presenceData) ==
  LET mapping == getMappingBySteamId(presenceData.steamId)
      previousState == getSteamCache(presenceData.steamId)
  IN IF mapping = {}
       THEN UNCHANGED <<db, tasks>>
     ELSE IF ~Changed(previousState, presenceData)
       THEN UNCHANGED <<db, tasks>>
     ELSE IF ~canUpdate(presenceData.steamId, CooldownSeconds)
       THEN /\ steam_cache' = updateSteamCache(presenceData.steamId, presenceData)
            /\ UNCHANGED <<user_mappings, server_configs, rate_limits, tasks>>
     ELSE /\ steam_cache' = updateSteamCache(presenceData.steamId, presenceData)
          /\ rate_limits' = recordUpdate(presenceData.steamId)
          /\ tasks' = Append(tasks, NewTask(presenceData, previousState,
                                            CHOOSE m \in mapping : TRUE,
                                            getAllServerConfigs))
          /\ UNCHANGED <<user_mappings, server_configs>>

\* ------------------------------------------------------------------ actions
\* Every handler run is counted; the model follows MaxSteps of them.
Counted == steps < MaxSteps /\ steps' = steps + 1

\* steam-manager.js 'user' handler, which calls handlePresenceChange.
OnUser(steamId, user, t) ==
  /\ Counted
  /\ t >= now
  /\ now' = t
  /\ last' = [op |-> "user", steamId |-> steamId, user |-> user]
  /\ IF ~Admitted(steamId)
       THEN UNCHANGED <<db, tasks>>
       ELSE handlePresenceChange(PresenceData(steamId, user))
  /\ UNCHANGED friendsCache
  /\ UNCHANGED life

\* One awaited sendPresenceUpdate call of task i settles.
SendReturn(i, outcome) ==
  /\ i \in 1..Len(tasks)
  /\ tasks[i].status = "awaiting"
  /\ tasks' = [tasks EXCEPT ![i] = FanoutResume(tasks[i], sendPresenceUpdate(outcome))]
  /\ last' = [op |-> "send"]
  /\ Counted
  /\ UNCHANGED <<db, friendsCache, now>>
  /\ UNCHANGED life

\* 'friendsList': full sync from the client's relationship table.
OnFriendsList(myFriends) ==
  /\ friendsCache' = updateFriendsCache(myFriends)
  /\ last' = [op |-> "friends"]
  /\ Counted
  /\ UNCHANGED <<db, now, tasks>>
  /\ UNCHANGED life

OnFriendRelationship(steamId, relationship) ==
  /\ friendsCache' = friendRelationship(steamId, relationship)
  /\ last' = [op |-> "friends"]
  /\ Counted
  /\ UNCHANGED <<db, now, tasks>>
  /\ UNCHANGED life

\* Faulty variant: the check that the account is linked to someone else is missing.
LinkReply_NoSteamCheck(discordId, steamId64) ==
  LET existing == getUserMapping(discordId)
  IN IF steamId64 = ParseError THEN "invalidIdentifier"
     ELSE IF ~isFriend(steamId64) THEN "notFriend"
     ELSE IF \E e \in existing : e.steam_id # steamId64 THEN "alreadyLinked"
     ELSE "linked"

\* The checks of handleLink, in order, and the reply each one ends with.
LinkReply(discordId, steamId64) ==
  LET existing == getUserMapping(discordId)
      existingSteam == getMappingBySteamId(steamId64)
  IN IF steamId64 = ParseError THEN "invalidIdentifier"
     ELSE IF ~isFriend(steamId64) THEN "notFriend"
     ELSE IF \E e \in existing : e.steam_id # steamId64 THEN "alreadyLinked"
     ELSE IF \E e \in existingSteam : e.discord_id # discordId THEN "steamTaken"
     ELSE "linked"

handleLink(discordId, identifier) ==
  LET steamId64 == parseSteamIdentifier(identifier)
      reply == LinkReply(discordId, steamId64)
  IN /\ user_mappings' = IF reply = "linked" THEN linkUser(discordId, steamId64)
                         ELSE user_mappings
     /\ last' = [op |-> "link", discordId |-> discordId, steamId64 |-> steamId64,
                 reply |-> reply]
     /\ Counted
     /\ UNCHANGED <<server_configs, rate_limits, steam_cache, friendsCache, now, tasks>>
     /\ UNCHANGED life

handleUnlink(discordId) ==
  LET existing == getUserMapping(discordId)
  IN /\ user_mappings' = IF existing = {} THEN user_mappings ELSE unlinkUser(discordId)
     /\ last' = [op |-> "unlink", discordId |-> discordId,
                 reply |-> IF existing = {} THEN "noLink" ELSE "unlinked"]
     /\ Counted
     /\ UNCHANGED <<server_configs, rate_limits, steam_cache, friendsCache, now, tasks>>
     /\ UNCHANGED life

handleSetChannel(guildId, channelId, isAdmin, isTextBased, hasPermissions) ==
  LET reply == IF ~isAdmin THEN "notAdmin"
               ELSE IF ~isTextBased THEN "notText"
               ELSE IF ~hasPermissions THEN "noPermission"
               ELSE "set"
  IN /\ server_configs' = IF reply = "set" THEN setUpdateChannel(guildId, channelId)
                          ELSE server_configs
     /\ last' = [op |-> "setchannel"]
     /\ Counted
     /\ UNCHANGED <<user_mappings, rate_limits, steam_cache, friendsCache, now, tasks>>
     /\ UNCHANGED life

\* --------------------------------------------------------- lifecycle state
\* The environment: whether the four required variables are set, and which
\* of STEAM_SHARED_SECRET and STEAM_2FA_CODE are.
Configs == [valid : BOOLEAN, sharedSecret : BOOLEAN, twoFactorCode : BOOLEAN]

\* Right after new SteamDiscordBot(): nothing is constructed yet.
\* loaded counts the calls of handleFriendsListLoaded that the model has
\* followed (OnFriendsListLoaded).
NewBot ==
  [db |-> "null", steamManager |-> "null", discordManager |-> "null",
   isShuttingDown |-> FALSE, loaded |-> 0]

\* Before SteamManager exists: no client, no login() promise.  listeners
\* tells whether onLoggedOn, onError and onSteamGuard are attached; logOns
\* counts the client.logOn calls, codes the codes passed to a steamGuard
\* callback, challenges the 'steamGuard' events received.
\* twoFactorCode is the code in the logOn options and callbackCode the last
\* code passed to a steamGuard callback: NoCode, ManualCode, or the time
\* window a generated code belongs to.
NoCode == -1
ManualCode == -2
TotpWindow == 30

\* SteamTotp.generateAuthCode(sharedSecret): the code of the current time
\* window; two calls give the same code only within one window.
generateAuthCode == now \div TotpWindow

NoSteam ==
  [isLoggedIn |-> FALSE, session |-> "idle", listeners |-> FALSE,
   logOns |-> 0, codes |-> 0, challenges |-> 0, optionsCode |-> "none",
   eresult |-> "none", twoFactorCode |-> NoCode, callbackCode |-> NoCode]

\* handlers: the listeners of setupShutdownHandlers are installed; teardown:
\* the closing calls made so far, in order; errors: what logger.error
\* reported; signalled: a termination signal was delivered; exit: "none"
\* while the process runs, then how it ended.
NewProcess ==
  [handlers |-> FALSE, teardown |-> <<>>, errors |-> {}, signalled |-> FALSE,
   exit |-> "none"]

\* start() has returned: both logins succeeded, the commands are registered
\* and the shutdown handlers are installed.
RunningConfig == [valid |-> TRUE, sharedSecret |-> TRUE, twoFactorCode |-> FALSE]

RunningBot ==
  [db |-> "open", steamManager |-> "constructed", discordManager |-> "ready",
   isShuttingDown |-> FALSE, loaded |-> 0]

RunningSteam ==
  [isLoggedIn |-> TRUE, session |-> "online", listeners |-> FALSE,
   logOns |-> 1, codes |-> 0, challenges |-> 0, optionsCode |-> "totp",
   eresult |-> "none", twoFactorCode |-> 0, callbackCode |-> NoCode]

RunningProcess ==
  [handlers |-> TRUE, teardown |-> <<>>, errors |-> {}, signalled |-> FALSE,
   exit |-> "none"]

\* What earlier runs can have left in the store: links made by /steam link
\* and destinations made by /steam setchannel, before any presence event.
PersistedStores ==
  { [user_mappings |-> {}, server_configs |-> <<>>],
    [user_mappings |-> {[discord_id |-> "u1", steam_id |-> "76561198000000001"]},
     server_configs |-> <<[guild_id |-> "g1", update_channel_id |-> "c11"],
                          [guild_id |-> "g2", update_channel_id |-> "c21"]>>] }

Init ==
  /\ \E store \in PersistedStores :
       /\ user_mappings = store.user_mappings
       /\ server_configs = store.server_configs
  /\ rate_limits = <<>>
  /\ steam_cache = <<>>
  /\ friendsCache = {}
  /\ now = 0
  /\ tasks = <<>>
  /\ steps = 0
  /\ last = [op |-> "start"]
  /\ config = RunningConfig
  /\ pc = "running"
  /\ bot = RunningBot
  /\ steam = RunningSteam
  /\ process = RunningProcess

Next ==
  \/ \E s \in SteamIds, u \in RawUsers, t \in Times : OnUser(s, u, t)
  \/ \E i \in 1..MaxSteps, o \in DeliveryOutcomes : SendReturn(i, o)
  \/ \E mf \in [SteamIds -> Relationships] : OnFriendsList(mf)
  \/ \E s \in SteamIds, r \in Relationships : OnFriendRelationship(s, r)
  \/ \E d \in DiscordIds, ident \in Identifiers : handleLink(d, ident)
  \/ \E d \in DiscordIds : handleUnlink(d)
  \/ \E g \in Guilds, a, t, p \in BOOLEAN : \E c \in ChannelsOf[g] :
        handleSetChannel(g, c, a, t, p)

Spec == Init /\ [][Next]_vars

\* ------------------------------------------------------------ vocabulary
\* The step just taken ran the 'user' handler / the link command.
UserStep == steps' = steps + 1 /\ last'.op = "user"
LinkStep == steps' = steps + 1 /\ last'.op = "link"
SendStep == steps' = steps + 1 /\ last'.op = "send"

\* The snapshot of the last presence event, as the pipeline receives it.
Snapshot(l) == PresenceData(l.steamId, l.user)

\* The four snapshot fields of a cache row equal those of a snapshot.
Reflects(row, snapshot) ==
  /\ row.persona_name = snapshot.personaName
  /\ row.game_name = snapshot.gameName
  /\ row.game_id = snapshot.gameId
  /\ row.persona_state = snapshot.personaState

\* presenceState and activityName of a snapshot equal the cached entry.
SameAsCached(steamId, snapshot) ==
  /\ steamId \in DOMAIN steam_cache
  /\ steam_cache[steamId].persona_state = snapshot.personaState
  /\ steam_cache[steamId].game_name = snapshot.gameName

Linked(steamId) == \E m \in user_mappings : m.steam_id = steamId

\* A cooldown is running for the account at the time t.
InCooldown(steamId, t) ==
  /\ steamId \in DOMAIN rate_limits
  /\ t - rate_limits[steamId].last_update < CooldownSeconds

FanoutStarted == Len(tasks') = Len(tasks) + 1

\* ------------------------------------------------------------------- C1
C1_Spaced ==
  \A i, j \in DOMAIN tasks :
    (i < j /\ tasks[i].steamId = tasks[j].steamId)
      => tasks[j].time - tasks[i].time >= CooldownSeconds

C1_StartsOnlyEligible ==
  FanoutStarted =>
    LET a == tasks'[Len(tasks')].steamId
    IN \/ a \notin DOMAIN rate_limits
       \/ now' - rate_limits[a].last_update >= CooldownSeconds

\* C1: two fanouts for one account are never less than 300 seconds apart, and
\* a fanout starts only when the account has no rate-limit record or at least
\* 300 seconds have passed since its last_update.
C1_Cooldown == [](C1_Spaced) /\ [][C1_StartsOnlyEligible]_vars

C1_Witness ==
  \E i, j \in DOMAIN tasks :
    /\ i < j
    /\ tasks[i].steamId = tasks[j].steamId
    /\ tasks[j].time - tasks[i].time = CooldownSeconds
    /\ rate_limits[tasks[j].steamId].update_count = 2

\* ------------------------------------------------------------------- C2
C2_UnchangedIsNoOp ==
  (UserStep /\ SameAsCached(last'.steamId, Snapshot(last')))
    => /\ tasks' = tasks
       /\ rate_limits' = rate_limits

C2_SecondDeliveryIsNoOp ==
  (UserStep /\ last.op = "user" /\ last' = last)
    => /\ tasks' = tasks
       /\ rate_limits' = rate_limits

\* C2: an event whose presenceState and activityName equal the cached entry
\* starts no fanout and leaves the rate-limit records as they are, cooldown or
\* not; the same snapshot delivered twice in a row starts no fanout and does
\* not touch the rate-limit records on the second delivery.
C2_Idempotent == [][C2_UnchangedIsNoOp /\ C2_SecondDeliveryIsNoOp]_vars

\* An unchanged event arrived for a linked friend after the cooldown had run
\* out, and only the one earlier fanout exists.
C2_Witness ==
  /\ last.op = "user"
  /\ last.steamId \in friendsCache
  /\ Linked(last.steamId)
  /\ SameAsCached(last.steamId, Snapshot(last))
  /\ last.steamId \in DOMAIN rate_limits
  /\ now - rate_limits[last.steamId].last_update >= CooldownSeconds
  /\ steam_cache[last.steamId].last_updated < now
  /\ Len(tasks) = 1

\* ------------------------------------------------------------------- C3
\* C3: a changed event (presenceState or activityName differs from the cache)
\* for a linked friend account during the cooldown writes the new snapshot to
\* the cache, starts no fanout and leaves the rate-limit records unchanged.
C3_RateLimited ==
  [][(/\ UserStep
      /\ last'.steamId \in friendsCache
      /\ Linked(last'.steamId)
      /\ ~SameAsCached(last'.steamId, Snapshot(last'))
      /\ InCooldown(last'.steamId, now'))
     => /\ last'.steamId \in DOMAIN steam_cache'
        /\ Reflects(steam_cache'[last'.steamId], Snapshot(last'))
        /\ tasks' = tasks
        /\ rate_limits' = rate_limits]_vars

\* A change of the activity alone was cached during the cooldown of the one
\* earlier notification.
C3_Witness ==
  /\ last.op = "user"
  /\ Len(tasks) = 1
  /\ tasks[1].steamId = last.steamId
  /\ InCooldown(last.steamId, now)
  /\ rate_limits[last.steamId].update_count = 1
  /\ Reflects(steam_cache[last.steamId], Snapshot(last))
  /\ steam_cache[last.steamId].persona_state = tasks[1].presenceData.personaState
  /\ steam_cache[last.steamId].game_name # tasks[1].presenceData.gameName

\* ------------------------------------------------------------------- C4
\* C4 as stated: after a presence event for a linked friend account, the
\* cache row of the account has the displayName, activityName, activityId and
\* presenceState of that event, whatever the pipeline decided.
C4_CacheReflectsLatest ==
  (last.op = "user" /\ last.steamId \in friendsCache /\ Linked(last.steamId))
    => /\ last.steamId \in DOMAIN steam_cache
       /\ Reflects(steam_cache[last.steamId], Snapshot(last))

\* C4 amended: after a presence event for a linked friend account, the cache
\* row has the presenceState and activityName of that event; an event that
\* differs from the cache in one of the two is written whole (notified or
\* rate-limited), and an event that differs in neither leaves the row as it
\* was, its displayName and activityId included.
C4_CacheFreshness ==
  [][(UserStep /\ last'.steamId \in friendsCache /\ Linked(last'.steamId))
     => LET a == last'.steamId
            snap == Snapshot(last')
        IN /\ a \in DOMAIN steam_cache'
           /\ steam_cache'[a].persona_state = snap.personaState
           /\ steam_cache'[a].game_name = snap.gameName
           /\ IF SameAsCached(a, snap)
                THEN steam_cache'[a] = steam_cache[a]
                ELSE /\ Reflects(steam_cache'[a], snap)
                     /\ steam_cache'[a].last_updated = now']_vars

\* An event that changed the displayName alone was processed: the cache
\* keeps the older name.
C4_Witness ==
  /\ last.op = "user"
  /\ last.steamId \in friendsCache
  /\ Linked(last.steamId)
  /\ SameAsCached(last.steamId, Snapshot(last))
  /\ steam_cache[last.steamId].persona_name # Snapshot(last).personaName

\* ------------------------------------------------------------------- C5
\* C5: for a changed event of a linked friend account: with no rate-limit
\* record it is notified; 299 seconds after last_update it is cached and not
\* notified, and the record stays; 300 seconds after last_update it is
\* notified and last_update becomes the time of this event.
C5_Boundary ==
  [][(/\ UserStep
      /\ last'.steamId \in friendsCache
      /\ Linked(last'.steamId)
      /\ ~SameAsCached(last'.steamId, Snapshot(last')))
     => LET a == last'.steamId
            notified == /\ FanoutStarted
                        /\ tasks'[Len(tasks')].steamId = a
                        /\ rate_limits'[a].last_update = now'
        IN /\ a \notin DOMAIN rate_limits => notified
           /\ (a \in DOMAIN rate_limits
                 /\ now' - rate_limits[a].last_update = CooldownSeconds - 1)
                => /\ tasks' = tasks
                   /\ rate_limits' = rate_limits
                   /\ Reflects(steam_cache'[a], Snapshot(last'))
           /\ (a \in DOMAIN rate_limits
                 /\ now' - rate_limits[a].last_update = CooldownSeconds)
                => notified]_vars

\* Notified at 0, cached without notification at 299, notified at 300.
C5_Witness ==
  /\ Len(tasks) = 2
  /\ tasks[1].steamId = tasks[2].steamId
  /\ tasks[1].time = 0
  /\ tasks[2].time = CooldownSeconds
  /\ \E prev \in tasks[2].previousState :
       /\ prev.last_updated = CooldownSeconds - 1
       /\ ~Reflects(prev, tasks[1].presenceData)
  /\ rate_limits[tasks[2].steamId].last_update = CooldownSeconds
  /\ rate_limits[tasks[2].steamId].update_count = 2

\* ------------------------------------------------------------------- C6
C6_Bijection ==
  \A m1, m2 \in user_mappings :
    (m1.discord_id = m2.discord_id \/ m1.steam_id = m2.steam_id) => m1 = m2

C6_ConflictRejected ==
  (/\ LinkStep
   /\ \/ \E m \in user_mappings :
           m.discord_id = last'.discordId /\ m.steam_id # last'.steamId64
      \/ \E m \in user_mappings :
           m.steam_id = last'.steamId64 /\ m.discord_id # last'.discordId)
    => /\ user_mappings' = user_mappings
       /\ last'.reply # "linked"

\* C6: the links are always a bijection, and a link command by a chat user
\* bound to a different account, or for an account bound to a different chat
\* user, is rejected and leaves the links as they were.
C6_LinkBijection == [](C6_Bijection) /\ [][C6_ConflictRejected]_vars

\* A friend account that is linked to one chat user was claimed by another.
C6_Witness ==
  /\ last.op = "link"
  /\ last.reply = "steamTaken"
  /\ \E m \in user_mappings :
       m.steam_id = last.steamId64 /\ m.discord_id # last.discordId

\* ------------------------------------------------------------------- C7
\* C7: a presence event for an account that is not in the friends cache
\* writes no cache row, changes no rate-limit record and starts no fanout,
\* linked or not.
C7_NonFriendExcluded ==
  [][(UserStep /\ last'.steamId \notin friendsCache)
     => /\ steam_cache' = steam_cache
        /\ rate_limits' = rate_limits
        /\ tasks' = tasks]_vars

\* An event arrived for a linked account that is not a friend.
C7_Witness ==
  /\ last.op = "user"
  /\ last.steamId \notin friendsCache
  /\ Linked(last.steamId)
  /\ last.steamId \notin DOMAIN steam_cache

\* ------------------------------------------------------------------- C8
IsPrefix(p, q) == Len(p) <= Len(q) /\ \A i \in 1..Len(p) : p[i] = q[i]

\* Every destination of a fanout is invoked at most once, in order; each
\* call before the last has returned; a finished fanout invoked them all.
C8_EachInvokedOnce ==
  \A i \in DOMAIN tasks :
    LET task == tasks[i]
    IN /\ IsPrefix(task.invoked, task.configs)
       /\ task.status = "awaiting" => Len(task.results) = Len(task.invoked) - 1
       /\ task.status = "done"
            => task.invoked = task.configs /\ Len(task.results) = Len(task.configs)

C8_AllDestinations ==
  FanoutStarted =>
    tasks'[Len(tasks')].configs =
      [k \in 1..Len(server_configs) |-> server_configs[k].update_channel_id]

C8_SendLeavesStore ==
  SendStep => /\ steam_cache' = steam_cache
              /\ rate_limits' = rate_limits

\* C8: a fanout covers every destination configured when it starts, invokes
\* the notifier once for each whatever the other calls return, and no
\* delivery outcome changes the cache or the rate-limit records.
C8_FanoutIsolation ==
  [](C8_EachInvokedOnce) /\ [][C8_AllDestinations /\ C8_SendLeavesStore]_vars

\* Two destinations: the first delivery failed, the second was still sent.
C8_Witness ==
  \E i \in DOMAIN tasks :
    /\ Len(tasks[i].configs) = 2
    /\ tasks[i].status = "done"
    /\ tasks[i].results = <<"false", "true">>
    /\ last.op = "send"
    /\ tasks[i].steamId \in DOMAIN rate_limits
    /\ Reflects(steam_cache[tasks[i].steamId], tasks[i].presenceData)

\* ------------------------------------------------------------------- C9
\* C9: a presence event for an account without a link changes nothing in the
\* store and starts no fanout.
C9_UnlinkedDiscarded ==
  [][(UserStep /\ ~Linked(last'.steamId))
     => /\ db' = db
        /\ tasks' = tasks]_vars

\* A changed event arrived for a friend account that was linked and notified
\* earlier and is linked no more.
C9_Witness ==
  /\ last.op = "user"
  /\ last.steamId \in friendsCache
  /\ ~Linked(last.steamId)
  /\ last.steamId \in DOMAIN steam_cache
  /\ ~SameAsCached(last.steamId, Snapshot(last))
  /\ \E i \in DOMAIN tasks : tasks[i].steamId = last.steamId

\* ------------------------------------------------------------------ C10
\* C10 as stated: two notifications about one chat user's linked account are
\* never less than 300 seconds apart.
C10_PerUserCooldown ==
  \A i, j \in DOMAIN tasks :
    (i < j /\ tasks[i].discordId = tasks[j].discordId)
      => tasks[j].time - tasks[i].time >= CooldownSeconds


\* ------------------------------------------------------------------ C11
\* C11: a link command adds a link only for an account that is in the
\* friends cache when the command runs; for an account that is not (also
\* while the cache is still empty before the first friends-list sync) the
\* command is rejected and the links stay as they were.
C11_LinkOnlyFriends ==
  [][LinkStep =>
       /\ \A m \in user_mappings' \ user_mappings :
            m.steam_id = last'.steamId64 /\ m.steam_id \in friendsCache
       /\ last'.reply = "linked" => last'.steamId64 \in friendsCache
       /\ last'.steamId64 \notin friendsCache
            => user_mappings' = user_mappings /\ last'.reply # "linked"]_vars

\* A well-formed identifier of an unbound account was refused to an unbound
\* chat user while the friends cache was still empty.
C11_Witness ==
  /\ last.op = "link"
  /\ last.steamId64 \in SteamIds
  /\ last.reply = "notFriend"
  /\ friendsCache = {}
  /\ ~Linked(last.steamId64)
  /\ getUserMapping(last.discordId) = {}


\* ------------------------------------------------------- the store alone
\* The store's write operations called directly, as DatabaseManager's
\* interface allows, without the checks of the command handlers.  The
\* statements return normally whatever rows they replace; last records the
\* call and how it ended.
CallLinkUser(discordId, steamId) ==
  /\ user_mappings' = linkUser(discordId, steamId)
  /\ last' = [op |-> "linkUser", discordId |-> discordId, steamId |-> steamId,
              result |-> "returned"]
  /\ UNCHANGED <<server_configs, rate_limits, steam_cache, friendsCache, now,
                 tasks, steps>>
  /\ UNCHANGED life

CallUnlinkUser(discordId) ==
  /\ user_mappings' = unlinkUser(discordId)
  /\ last' = [op |-> "unlinkUser", discordId |-> discordId, result |-> "returned"]
  /\ UNCHANGED <<server_configs, rate_limits, steam_cache, friendsCache, now,
                 tasks, steps>>
  /\ UNCHANGED life

CallSetUpdateChannel(guildId, channelId) ==
  /\ server_configs' = setUpdateChannel(guildId, channelId)
  /\ last' = [op |-> "setUpdateChannel", guildId |-> guildId,
              channelId |-> channelId, result |-> "returned"]
  /\ UNCHANGED <<user_mappings, rate_limits, steam_cache, friendsCache, now,
                 tasks, steps>>
  /\ UNCHANGED life

StoreNext ==
  \/ \E d \in DiscordIds, s \in SteamIds : CallLinkUser(d, s)
  \/ \E d \in DiscordIds : CallUnlinkUser(d)
  \/ \E g \in Guilds : \E c \in ChannelsOf[g] : CallSetUpdateChannel(g, c)
  \/ \E g \in Guilds, a, t, p \in BOOLEAN : \E c \in ChannelsOf[g] :
        handleSetChannel(g, c, a, t, p)

SpecStore == Init /\ [][StoreNext]_vars

\* ------------------------------------------------------------------ C12
\* One side of the pair is bound to a different counterpart.
BoundToOther(discordId, steamId) ==
  \E m \in user_mappings :
    \/ m.discord_id = discordId /\ m.steam_id # steamId
    \/ m.steam_id = steamId /\ m.discord_id # discordId

\* C12 as stated: the store's link operation, called with a pair of which one
\* side is bound to a different counterpart, fails with AlreadyLinkedOther and
\* leaves every existing link as it was.
C12_WriteRejectsConflict ==
  [][(last'.op = "linkUser" /\ BoundToOther(last'.discordId, last'.steamId))
     => /\ last'.result = "AlreadyLinkedOther"
        /\ user_mappings' = user_mappings]_vars


\* ------------------------------------------------------------------ C18
\* The destination channels stored for a guild, and the rows of the others.
ChannelsStored(configs, guildId) ==
  {configs[i].update_channel_id : i \in {k \in DOMAIN configs : configs[k].guild_id = guildId}}

RowsOfOthers(configs, guildId) == SelectSeq(configs, LAMBDA r : r.guild_id # guildId)

C18_OnePerGuild ==
  \A i, j \in DOMAIN server_configs :
    server_configs[i].guild_id = server_configs[j].guild_id => i = j

C18_LastWriteWins ==
  /\ last'.op = "setUpdateChannel"
       => /\ ChannelsStored(server_configs', last'.guildId) = {last'.channelId}
          /\ RowsOfOthers(server_configs', last'.guildId)
               = RowsOfOthers(server_configs, last'.guildId)
  /\ (last'.op = "setchannel" /\ server_configs' # server_configs)
       => \E g \in Guilds : \E c \in ChannelsOf[g] :
            /\ ChannelsStored(server_configs', g) = {c}
            /\ RowsOfOthers(server_configs', g) = RowsOfOthers(server_configs, g)

\* C18: there is never more than one destination row per guild; after a
\* setUpdateChannel call the guild's row holds the channel of that call, and
\* the rows of the other guilds are as before; a /steam setchannel command
\* changes the row of one guild at most.
C18_OneDestinationPerGuild == [](C18_OnePerGuild) /\ [][C18_LastWriteWins]_vars

\* The destination of g1 was c11 and is c12 after the last call; the row of
\* g2 is the one the store started with.
C18_Witness ==
  /\ last.op = "setUpdateChannel"
  /\ last.guildId = "g1"
  /\ last.channelId = "c12"
  /\ server_configs = <<[guild_id |-> "g2", update_channel_id |-> "c21"],
                        [guild_id |-> "g1", update_channel_id |-> "c12"]>>


\* ------------------------------------------------ start-up and shutdown
\* SteamDiscordBot.start() (src/src/logger.js), SteamManager.login() and
\* its three listeners (src/src/steam-manager.js), and the listeners of
\* setupShutdownHandlers, one action per run between two awaits.  The Steam
\* client, the Discord client and the operating system are the environment:
\* they answer a logOn with 'loggedOn', 'steamGuard' or 'error', drop the
\* session, settle the Discord calls and deliver signals at any moment.
MaxChallenges == 2

\* eresult of an 'error' event: the three that onError tells apart, and one
\* of the others, which a later attempt can get past.
EResults == {"InvalidPassword", "AccountLogonDenied", "TwoFactorCodeMismatch",
             "RateLimitExceeded"}

TransientEResults == {"RateLimitExceeded"}

Signals == {"SIGINT", "SIGTERM"}

Alive == process.exit = "none"

data == <<user_mappings, server_configs, rate_limits, steam_cache, friendsCache,
          now, tasks, steps>>

\* login() up to client.logOn: the options carry a code when a seed or a
\* manual code is configured, the three listeners are attached.
login ==
  [steam EXCEPT !.session = "loggingOn", !.listeners = TRUE, !.logOns = @ + 1,
                !.optionsCode = IF config.sharedSecret THEN "totp"
                                ELSE IF config.twoFactorCode THEN "manual"
                                ELSE "none",
                !.twoFactorCode = IF config.sharedSecret THEN generateAuthCode
                                  ELSE IF config.twoFactorCode THEN ManualCode
                                  ELSE NoCode]

\* The catch of start(): log and process.exit(1).
StartFailed(reported) ==
  /\ pc' = "failed"
  /\ process' = [process EXCEPT !.errors = @ \cup reported \cup {"Failed to start bot"},
                                !.exit = "exit(1)"]

\* start() from its first line to await this.steamManager.login().
start ==
  /\ Alive
  /\ pc = "start"
  /\ IF ~config.valid
       THEN StartFailed({}) /\ UNCHANGED <<bot, steam>>
       ELSE /\ bot' = [bot EXCEPT !.db = "open", !.steamManager = "constructed"]
            /\ steam' = login
            /\ pc' = "awaitSteamLogin"
            /\ UNCHANGED process
  /\ last' = [op |-> "start()"]
  /\ UNCHANGED <<data, config>>

\* 'loggedOn': onLoggedOn when it is still attached, and then the
\* continuation of start() up to await this.discordManager.login().
OnLoggedOn ==
  /\ Alive
  /\ steam.session = "loggingOn"
  /\ IF steam.listeners
       THEN /\ steam' = [steam EXCEPT !.isLoggedIn = TRUE, !.session = "online",
                                      !.listeners = FALSE]
            /\ bot' = [bot EXCEPT !.discordManager = "constructed"]
            /\ pc' = "awaitDiscordLogin"
       ELSE /\ steam' = [steam EXCEPT !.session = "online"]
            /\ UNCHANGED <<bot, pc>>
  /\ last' = [op |-> "loggedOn"]
  /\ UNCHANGED <<data, config, process>>

\* SteamManager.logout(): logOff only when isLoggedIn.
logout(s) ==
  IF s.isLoggedIn THEN [s EXCEPT !.session = "loggedOff"] ELSE s

\* shutdown(signal) of setupShutdownHandlers up to await destroy(), or to
\* process.exit(0) when there is no DiscordManager to await.
\* signal names the caller, s is the SteamManager's state when the listener
\* runs, reported the lines the listener has logged before the call.
shutdown(signal, s, reported) ==
  IF bot.isShuttingDown
    THEN /\ steam' = s
         /\ process' = [process EXCEPT !.errors = @ \cup reported,
                                       !.signalled = @ \/ signal \in Signals]
         /\ UNCHANGED bot
    ELSE LET closing == (IF bot.steamManager # "null" /\ s.isLoggedIn
                           THEN <<"logOff">> ELSE <<>>)
             waits == bot.discordManager # "null"
         IN /\ steam' = IF bot.steamManager # "null" THEN logout(s) ELSE s
            /\ bot' = [bot EXCEPT !.isShuttingDown = TRUE,
                                  !.db = IF ~waits /\ @ = "open" THEN "closed" ELSE @]
            /\ process' =
                 [process EXCEPT
                    !.errors = @ \cup reported,
                    !.signalled = @ \/ signal \in Signals,
                    !.teardown = @ \o closing \o
                                 (IF waits THEN <<"destroy">>
                                  ELSE IF bot.db = "open" THEN <<"close">> ELSE <<>>),
                    !.exit = IF waits THEN @ ELSE "exit(0)"]

\* An exception that no handler catches: the 'uncaughtException' listener
\* when it is installed, the end of the process when it is not.
UncaughtException(s) ==
  IF process.handlers
    THEN shutdown("uncaughtException", s, {"Uncaught exception"})
    ELSE /\ process' = [process EXCEPT !.errors = @ \cup {"Uncaught exception"},
                                       !.exit = "crash"]
         /\ steam' = s
         /\ UNCHANGED bot

\* Faulty variant: invalid credentials are submitted again.
onError_Retry(eresult) ==
  IF eresult = "InvalidPassword"
    THEN /\ steam' = [steam EXCEPT !.logOns = @ + 1, !.eresult = eresult]
         /\ UNCHANGED <<pc, process>>
    ELSE /\ steam' = [steam EXCEPT !.session = "error", !.listeners = FALSE,
                                   !.eresult = eresult]
         /\ StartFailed({"Steam login error"})

\* onError of login(): log by eresult, cleanup, reject; the rejection is
\* caught by start().
onError(eresult) ==
  /\ steam' = [steam EXCEPT !.session = "error", !.listeners = FALSE,
                            !.eresult = eresult]
  /\ StartFailed({"Steam login error"}
                 \cup (IF eresult = "InvalidPassword"
                         THEN {"Invalid Steam credentials"} ELSE {})
                 \cup (IF eresult \in {"AccountLogonDenied", "TwoFactorCodeMismatch"}
                         THEN {"2FA required or code invalid"} ELSE {}))

\* 'error' from the Steam client.  Without a listener the emitter throws.
OnSteamError(eresult) ==
  /\ Alive
  /\ steam.session \in {"loggingOn", "online"}
  /\ IF steam.listeners
       THEN onError(eresult) /\ UNCHANGED bot
       ELSE /\ UncaughtException([steam EXCEPT !.session = "error",
                                                !.eresult = eresult])
            /\ pc' = pc
  /\ last' = [op |-> "error", eresult |-> eresult]
  /\ UNCHANGED <<data, config>>


\* Faulty variant: without a seed the configured manual code is handed to
\* the callback.
onSteamGuard_ManualCode(lastCodeWrong) ==
  LET reported == IF lastCodeWrong THEN {"Previous 2FA code was incorrect"} ELSE {}
  IN IF config.sharedSecret \/ config.twoFactorCode
       THEN /\ steam' = [steam EXCEPT !.codes = @ + 1, !.challenges = @ + 1]
            /\ process' = [process EXCEPT !.errors = @ \cup reported]
            /\ pc' = pc
       ELSE /\ steam' = [steam EXCEPT !.session = "error", !.listeners = FALSE,
                                      !.challenges = @ + 1]
            /\ StartFailed(reported)

\* Faulty variant: the callback gets the code of the logOn options again.
onSteamGuard_StoredCode(lastCodeWrong) ==
  LET reported == IF lastCodeWrong THEN {"Previous 2FA code was incorrect"} ELSE {}
  IN IF config.sharedSecret
       THEN /\ steam' = [steam EXCEPT !.codes = @ + 1, !.challenges = @ + 1,
                                      !.callbackCode = steam.twoFactorCode]
            /\ process' = [process EXCEPT !.errors = @ \cup reported]
            /\ pc' = pc
       ELSE /\ steam' = [steam EXCEPT !.session = "error", !.listeners = FALSE,
                                      !.challenges = @ + 1]
            /\ StartFailed(reported)

\* onSteamGuard of login(): with a seed a new code goes to the callback,
\* without one the promise is rejected and start() catches.
onSteamGuard(lastCodeWrong) ==
  LET reported == IF lastCodeWrong THEN {"Previous 2FA code was incorrect"} ELSE {}
  IN IF config.sharedSecret
       THEN /\ steam' = [steam EXCEPT !.codes = @ + 1, !.challenges = @ + 1,
                                      !.callbackCode = generateAuthCode]
            /\ process' = [process EXCEPT !.errors = @ \cup reported]
            /\ pc' = pc
       ELSE /\ steam' = [steam EXCEPT !.session = "error", !.listeners = FALSE,
                                      !.challenges = @ + 1]
            /\ StartFailed(reported)

\* 'steamGuard' while login() is pending.  The last code can be reported
\* wrong only when one was submitted.
OnSteamGuard(lastCodeWrong) ==
  /\ Alive
  /\ steam.session = "loggingOn"
  /\ steam.listeners
  /\ steam.challenges < MaxChallenges
  /\ lastCodeWrong => (steam.optionsCode # "none" \/ steam.codes > 0)
  /\ onSteamGuard(lastCodeWrong)
  /\ last' = [op |-> "steamGuard", lastCodeWrong |-> lastCodeWrong]
  /\ UNCHANGED <<data, config, bot>>

\* Faulty variant: the drop also empties the friendship set.
OnDisconnected_ClearsFriends ==
  /\ Alive
  /\ steam.session = "online"
  /\ steam' = [steam EXCEPT !.isLoggedIn = FALSE, !.session = "disconnected"]
  /\ friendsCache' = {}
  /\ last' = [op |-> "disconnected"]
  /\ UNCHANGED <<db, now, tasks, steps, config, pc, bot, process>>

\* 'disconnected': the flag is cleared and a warning logged.
OnDisconnected ==
  /\ Alive
  /\ steam.session = "online"
  /\ steam' = [steam EXCEPT !.isLoggedIn = FALSE, !.session = "disconnected"]
  /\ last' = [op |-> "disconnected"]
  /\ UNCHANGED <<data, config, pc, bot, process>>

\* The Steam client logs on again by itself after a drop (autoRelogin is
\* on for new SteamUser() without options); login() is not called again.
OnRelogin ==
  /\ Alive
  /\ steam.session = "disconnected"
  /\ steam' = [steam EXCEPT !.session = "loggingOn"]
  /\ last' = [op |-> "relogin"]
  /\ UNCHANGED <<data, config, pc, bot, process>>

\* discordManager.login() settles; on 'ready' start() goes on to
\* await registerCommands.
OnDiscordLogin(ready) ==
  /\ Alive
  /\ pc = "awaitDiscordLogin"
  /\ IF ready
       THEN /\ bot' = [bot EXCEPT !.discordManager = "ready"]
            /\ pc' = "awaitRegisterCommands"
            /\ UNCHANGED process
       ELSE StartFailed({"Discord client error"}) /\ UNCHANGED bot
  /\ last' = [op |-> "discordLogin"]
  /\ UNCHANGED <<data, config, steam>>

\* registerCommands settles; then start() installs the interaction handler
\* and, last, the shutdown handlers.
OnCommandsRegistered(ok) ==
  /\ Alive
  /\ pc = "awaitRegisterCommands"
  /\ IF ok
       THEN /\ process' = [process EXCEPT !.handlers = TRUE]
            /\ pc' = "running"
       ELSE StartFailed({"Error registering commands"})
  /\ last' = [op |-> "registerCommands"]
  /\ UNCHANGED <<data, config, bot, steam>>

\* SIGINT or SIGTERM: the installed listener calls shutdown; without a
\* listener the signal ends the process at once.
OnSignal(signal) ==
  /\ Alive
  /\ pc # "start"
  /\ IF process.handlers
       THEN shutdown(signal, steam, {})
       ELSE /\ process' = [process EXCEPT !.signalled = TRUE, !.exit = signal]
            /\ UNCHANGED <<bot, steam>>
  /\ last' = [op |-> "signal", signal |-> signal]
  /\ UNCHANGED <<data, config, pc>>

\* await this.discordManager.destroy() settles: db.close() and
\* process.exit(0), or the catch of shutdown and process.exit(1).
OnDestroyed(ok) ==
  /\ Alive
  /\ bot.isShuttingDown
  /\ IF ok
       THEN /\ bot' = [bot EXCEPT !.discordManager = "destroyed",
                                  !.db = IF @ = "open" THEN "closed" ELSE @]
            /\ process' = [process EXCEPT
                             !.teardown = IF bot.db = "open" THEN Append(@, "close") ELSE @,
                             !.exit = "exit(0)"]
       ELSE /\ process' = [process EXCEPT !.errors = @ \cup {"Error during shutdown"},
                                          !.exit = "exit(1)"]
            /\ UNCHANGED bot
  /\ last' = [op |-> "destroyed"]
  /\ UNCHANGED <<data, config, pc, steam>>

\* The process starts with the store file that earlier runs left.
LifeInit ==
  /\ \E store \in PersistedStores :
       /\ user_mappings = store.user_mappings
       /\ server_configs = store.server_configs
  /\ rate_limits = <<>>
  /\ steam_cache = <<>>
  /\ friendsCache = {}
  /\ now = 0
  /\ tasks = <<>>
  /\ steps = 0
  /\ last = [op |-> "new"]
  /\ config \in Configs
  /\ pc = "start"
  /\ bot = NewBot
  /\ steam = NoSteam
  /\ process = NewProcess

LifeNext ==
  \/ start
  \/ OnLoggedOn
  \/ \E e \in EResults : OnSteamError(e)
  \/ \E w \in BOOLEAN : OnSteamGuard(w)
  \/ OnDisconnected
  \/ OnRelogin
  \/ \E ready \in BOOLEAN : OnDiscordLogin(ready)
  \/ \E ok \in BOOLEAN : OnCommandsRegistered(ok)
  \/ \E sig \in Signals : OnSignal(sig)
  \/ \E ok \in BOOLEAN : OnDestroyed(ok)

SpecLife == LifeInit /\ [][LifeNext]_vars


\* ------------------------------------------------------------------ C13
\* C13 as stated: when a termination signal has been delivered after the
\* store was opened, the process does not end before the Steam session is
\* closed and then the store is closed.
C13_SignalTeardown ==
  (process.signalled /\ process.exit # "none")
    => /\ bot.db = "closed"
       /\ steam.session \notin {"loggingOn", "online"}
       /\ \E i, j \in DOMAIN process.teardown :
            /\ i < j
            /\ process.teardown[i] = "logOff"
            /\ process.teardown[j] = "close"


\* ------------------------------------------------------------------ C15
\* Once invalid credentials were reported, the session is over, the operator
\* has been told and the process is ending or has ended.
C15_Failed ==
  steam.eresult = "InvalidPassword"
    => /\ steam.session \in {"error", "loggedOff"}
       /\ process.errors \cap {"Invalid Steam credentials", "Uncaught exception"} # {}
       /\ process.exit # "none" \/ bot.isShuttingDown

C15_NoFurtherAttempt ==
  steam.eresult = "InvalidPassword"
    => /\ steam'.logOns = steam.logOns
       /\ steam'.codes = steam.codes
       /\ steam'.session # "loggingOn"

C15_LoginRejected ==
  (last'.op = "error" /\ last'.eresult = "InvalidPassword" /\ steam.listeners)
    => /\ pc' = "failed"
       /\ process'.exit = "exit(1)"
       /\ {"Invalid Steam credentials", "Failed to start bot"} \subseteq process'.errors

\* C15: an authentication attempt answered with invalid credentials is
\* fatal: login() is rejected, start() reports the failure and exits with
\* status 1, and no logOn call, no Steam Guard code and no new logon follows.
C15_InvalidCredentialsFatal ==
  [](C15_Failed) /\ [][C15_NoFurtherAttempt /\ C15_LoginRejected]_vars

\* The first logOn was answered with InvalidPassword: start() failed.
C15_Witness ==
  /\ steam.eresult = "InvalidPassword"
  /\ steam.logOns = 1
  /\ pc = "failed"
  /\ process.exit = "exit(1)"
  /\ "Invalid Steam credentials" \in process.errors


\* ------------------------------------------------------------------ C16
\* C16 as stated: with a seed, one code at most is handed to a Steam Guard
\* callback and a second challenge fails the login; without a seed the first
\* challenge fails it, manual code or not.
C16_SecondFactorOnce ==
  /\ config.sharedSecret
       => /\ steam.codes <= 1
          /\ steam.challenges >= 2 => (pc = "failed" /\ process.exit = "exit(1)")
  /\ (~config.sharedSecret /\ steam.challenges >= 1)
       => (pc = "failed" /\ process.exit = "exit(1)")

GuardStep == last'.op = "steamGuard" /\ steam'.challenges = steam.challenges + 1

C16_SeedAnswersEach ==
  (GuardStep /\ config.sharedSecret)
    => /\ steam'.codes = steam.codes + 1
       /\ steam'.session = "loggingOn"
       /\ steam'.listeners
       /\ pc' = pc
       /\ process'.exit = "none"

C16_NoSeedFatal ==
  (GuardStep /\ ~config.sharedSecret)
    => /\ steam'.codes = steam.codes
       /\ steam'.session = "error"
       /\ pc' = "failed"
       /\ process'.exit = "exit(1)"

C16_NoSeedNoCode == ~config.sharedSecret => steam.codes = 0 /\ steam.challenges <= 1

\* C16 amended: while login() is pending, every Steam Guard challenge is
\* answered with a newly derived code when a seed is configured, however
\* many came before, and the login stays pending; without a seed the first
\* challenge rejects the login and the process exits with status 1, also
\* when a manual code is configured, and no code is ever handed to a callback.
C16_SecondFactor ==
  [](C16_NoSeedNoCode) /\ [][C16_SeedAnswersEach /\ C16_NoSeedFatal]_vars

\* With a seed, a second challenge (the code before it was wrong) was
\* answered with a second code and the login is still pending.
C16_Witness ==
  /\ config.sharedSecret
  /\ last.op = "steamGuard"
  /\ last.lastCodeWrong
  /\ steam.challenges = 2
  /\ steam.codes = 2
  /\ steam.session = "loggingOn"
  /\ process.exit = "none"


\* ------------------------------------------------------------------ C17
\* The event loop runs whatever is ready, and the Steam client's own
\* relogin after a drop does happen while the process lives.
SpecLifeFair == LifeInit /\ [][LifeNext]_vars /\ WF_vars(OnRelogin)

\* C17 as stated: after a mid-session drop, and after login() was answered
\* with an authentication error that a later attempt can get past, a new
\* authentication attempt is eventually started (for a drop: unless the
\* process is being shut down or has ended meanwhile).
C17_Reconnects ==
  /\ (steam.session = "disconnected")
       ~> (steam.session = "loggingOn" \/ bot.isShuttingDown \/ process.exit # "none")
  /\ (steam.eresult \in TransientEResults /\ pc = "failed")
       ~> (steam.session = "loggingOn")


\* ------------------------------------------ store failures in the pipeline
\* better-sqlite3 throws when a statement fails (disk full, I/O error, a
\* locked file).  Each call of handlePresenceChange is its own statement, so
\* what the calls before the failing one wrote stays written.
StoreCalls == {"getMappingBySteamId", "getSteamCache", "canUpdate",
               "updateSteamCache", "recordUpdate", "getAllServerConfigs"}

\* Does handlePresenceChange get as far as the call?
Reaches(presenceData, call) ==
  LET mapping == getMappingBySteamId(presenceData.steamId)
      previousState == getSteamCache(presenceData.steamId)
      eligible == canUpdate(presenceData.steamId, CooldownSeconds)
  IN \/ call = "getMappingBySteamId"
     \/ call = "getSteamCache" /\ mapping # {}
     \/ /\ call \in {"canUpdate", "updateSteamCache"}
        /\ mapping # {}
        /\ Changed(previousState, presenceData)
     \/ /\ call \in {"recordUpdate", "getAllServerConfigs"}
        /\ mapping # {}
        /\ Changed(previousState, presenceData)
        /\ eligible

\* Faulty variant: the catch hands the error on to the shutdown sequence.
handlePresenceChangeThrows_Shutdown(presenceData, failing) ==
  /\ steam_cache' = IF failing \in {"recordUpdate", "getAllServerConfigs"}
                      THEN updateSteamCache(presenceData.steamId, presenceData)
                      ELSE steam_cache
  /\ rate_limits' = IF failing = "getAllServerConfigs"
                      THEN recordUpdate(presenceData.steamId)
                      ELSE rate_limits
  /\ shutdown("uncaughtException", steam, {"Error handling presence change"})
  /\ UNCHANGED <<user_mappings, server_configs, tasks, config, pc>>

\* Faulty variant: the rate limit is charged before the cache is written.
handlePresenceChangeThrows_ChargeFirst(presenceData, failing) ==
  /\ rate_limits' = IF failing \in {"updateSteamCache", "getAllServerConfigs"}
                      THEN recordUpdate(presenceData.steamId)
                      ELSE rate_limits
  /\ steam_cache' = IF failing = "getAllServerConfigs"
                      THEN updateSteamCache(presenceData.steamId, presenceData)
                      ELSE steam_cache
  /\ process' = [process EXCEPT !.errors = @ \cup {"Error handling presence change"}]
  /\ UNCHANGED <<user_mappings, server_configs, tasks, config, pc, bot, steam>>

\* handlePresenceChange when the call named failing throws: the calls
\* before it have run, the catch logs the error and the handler returns.
handlePresenceChangeThrows(presenceData, failing) ==
  /\ steam_cache' = IF failing \in {"recordUpdate", "getAllServerConfigs"}
                      THEN updateSteamCache(presenceData.steamId, presenceData)
                      ELSE steam_cache
  /\ rate_limits' = IF failing = "getAllServerConfigs"
                      THEN recordUpdate(presenceData.steamId)
                      ELSE rate_limits
  /\ process' = [process EXCEPT !.errors = @ \cup {"Error handling presence change"}]
  /\ UNCHANGED <<user_mappings, server_configs, tasks, config, pc, bot, steam>>

\* A 'user' event of a friend during which a store call throws.
OnUserThrows(steamId, user, t, failing) ==
  /\ Counted
  /\ t >= now
  /\ now' = t
  /\ Admitted(steamId)
  /\ Reaches(PresenceData(steamId, user), failing)
  /\ handlePresenceChangeThrows(PresenceData(steamId, user), failing)
  /\ last' = [op |-> "userThrows", failing |-> failing]
  /\ UNCHANGED friendsCache

\* The bot is running with a link and destinations in its store, and the
\* friends list has been received.
FaultInit ==
  /\ \E store \in PersistedStores :
       /\ store.user_mappings # {}
       /\ user_mappings = store.user_mappings
       /\ server_configs = store.server_configs
  /\ rate_limits = <<>>
  /\ steam_cache = <<>>
  /\ friendsCache = SteamIds
  /\ now = 0
  /\ tasks = <<>>
  /\ steps = 0
  /\ last = [op |-> "friends"]
  /\ config = RunningConfig
  /\ pc = "running"
  /\ bot = RunningBot
  /\ steam = RunningSteam
  /\ process = RunningProcess

FaultNext ==
  \/ \E s \in SteamIds, u \in RawUsers, t \in Times : OnUser(s, u, t)
  \/ \E s \in SteamIds, u \in RawUsers, t \in Times, f \in StoreCalls :
        OnUserThrows(s, u, t, f)
  \/ \E i \in 1..MaxSteps, o \in DeliveryOutcomes : SendReturn(i, o)

SpecFault == FaultInit /\ [][FaultNext]_vars


\* ------------------------------------------------------------------ C14
ThrowStep == steps' = steps + 1 /\ last'.op = "userThrows"

PipelineErrorLogged == "Error handling presence change" \in process.errors

\* C14 as stated: an exception while a presence event is processed starts
\* the shutdown sequence, and no presence event is handled after it.
C14_ExceptionShutsDown ==
  [][/\ ThrowStep => bot'.isShuttingDown
     /\ PipelineErrorLogged => ~(UserStep \/ ThrowStep)]_vars

C14_CaughtAndLogged ==
  ThrowStep
    => /\ "Error handling presence change" \in process'.errors
       /\ process'.exit = "none"
       /\ bot' = bot
       /\ steam' = steam
       /\ tasks' = tasks
       /\ user_mappings' = user_mappings
       /\ server_configs' = server_configs

C14_NextEventsProcessed ==
  (/\ UserStep
   /\ PipelineErrorLogged
   /\ last'.steamId \in friendsCache
   /\ Linked(last'.steamId)
   /\ ~SameAsCached(last'.steamId, Snapshot(last'))
   /\ ~InCooldown(last'.steamId, now'))
    => /\ FanoutStarted
       /\ Reflects(steam_cache'[last'.steamId], Snapshot(last'))

\* C14 amended: an exception thrown by a store call while a presence event
\* is processed is caught and logged by handlePresenceChange: no fanout
\* starts for that event, no shutdown starts, the process keeps running, and
\* a later changed event of a linked friend outside a cooldown is cached and
\* notified as usual.
C14_ExceptionLoggedOnly == [][C14_CaughtAndLogged /\ C14_NextEventsProcessed]_vars

\* A store call threw during an earlier event; the event handled last
\* started the only fanout, and no shutdown has begun.
C14_Witness ==
  /\ PipelineErrorLogged
  /\ last.op = "user"
  /\ Len(tasks) = 1
  /\ tasks[1].presenceData = Snapshot(last)
  /\ tasks[1].time = now
  /\ tasks[1].results = <<>>
  /\ ~bot.isShuttingDown
  /\ process.exit = "none"


\* ------------------------------------------------------------------ C19
\* Sends of a fanout for the account are still awaited.
InFlight(steamId) ==
  \E i \in DOMAIN tasks : tasks[i].steamId = steamId /\ tasks[i].status = "awaiting"

\* C19 as stated: the handling of an event for an account begins only when
\* every fanout of earlier events for that account has finished.
C19_SequentialPerAccount ==
  [][(UserStep /\ last'.steamId \in friendsCache) => ~InFlight(last'.steamId)]_vars

\* An event leaves the fanouts that are running as they are and starts one
\* fanout at most.
C19_RunningFanoutsKept ==
  UserStep => /\ IsPrefix(tasks, tasks')
              /\ Len(tasks') <= Len(tasks) + 1

\* An event for an account with sends in flight is handled at once: a change
\* is cached, and notified only when the cooldown of that fanout is over.
C19_HandledWhileInFlight ==
  (/\ UserStep
   /\ last'.steamId \in friendsCache
   /\ Linked(last'.steamId)
   /\ InFlight(last'.steamId)
   /\ ~SameAsCached(last'.steamId, Snapshot(last')))
    => /\ Reflects(steam_cache'[last'.steamId], Snapshot(last'))
       /\ steam_cache'[last'.steamId].last_updated = now'
       /\ FanoutStarted <=> ~InCooldown(last'.steamId, now')

\* C19 amended: the store part of handling an event (lookups, change test,
\* cooldown test, cache and rate-limit writes) is one uninterrupted run, for
\* whatever account; the sends of its fanout are awaited afterwards and no
\* later event waits for them: an event for the same account is handled
\* while they are in flight, leaves them as they are, caches its change and
\* starts its own fanout when the cooldown allows.
C19_OverlappingFanout == [][C19_RunningFanoutsKept /\ C19_HandledWhileInFlight]_vars

\* A change of the same account was cached while the sends of its earlier
\* notification were still awaited.
C19_Witness ==
  /\ last.op = "user"
  /\ Len(tasks) = 1
  /\ tasks[1].steamId = last.steamId
  /\ tasks[1].status = "awaiting"
  /\ tasks[1].presenceData # Snapshot(last)
  /\ Reflects(steam_cache[last.steamId], Snapshot(last))

\* ------------------------------------------------------------------ C20
\* C20 as stated: a fanout has the sends to all its destinations under way
\* from its start, none waits for another to return.
C20_ConcurrentFanout ==
  \A i \in DOMAIN tasks : tasks[i].invoked = tasks[i].configs

\* The send to destination k + 1 is issued when k sends have returned.
C20_OneAtATime ==
  \A i \in DOMAIN tasks :
    LET task == tasks[i]
        returned == Len(task.results)
    IN /\ IsPrefix(task.invoked, task.configs)
       /\ Len(task.invoked) = IF returned < Len(task.configs)
                                THEN returned + 1 ELSE returned
       /\ task.status = "done" <=> returned = Len(task.configs)

C20_CommitBeforeSends ==
  FanoutStarted
    => LET task == tasks'[Len(tasks')]
       IN /\ task.results = <<>>
          /\ Reflects(steam_cache'[task.steamId], task.presenceData)
          /\ rate_limits'[task.steamId].last_update = now'

C20_NextAfterReturn ==
  SendStep
    => \E i \in DOMAIN tasks :
         /\ tasks[i].status = "awaiting"
         /\ Len(tasks'[i].results) = Len(tasks[i].results) + 1
         /\ \A j \in DOMAIN tasks : j # i => tasks'[j] = tasks[j]

\* C20 amended: the sends of a fanout are issued one at a time in the order
\* of the stored destinations; the send to a destination starts when the send
\* before it has returned, whatever it returned; the event is done when all
\* have returned; the cache and rate-limit writes are made before the first
\* send.
C20_SequentialFanout ==
  [](C20_OneAtATime) /\ [][C20_CommitBeforeSends /\ C20_NextAfterReturn]_vars

\* Two destinations: the first send has not returned, the second has not
\* been issued, and the store already has the event.
C20_Witness ==
  \E i \in DOMAIN tasks :
    /\ Len(tasks[i].configs) = 2
    /\ tasks[i].invoked = <<tasks[i].configs[1]>>
    /\ tasks[i].results = <<>>
    /\ tasks[i].status = "awaiting"
    /\ Reflects(steam_cache[tasks[i].steamId], tasks[i].presenceData)
    /\ rate_limits[tasks[i].steamId].last_update = tasks[i].time


\* ------------------------------------------------------------------ C21
\* When a fanout starts, no send has returned and the store has both rows
\* of the event.
C21_BothBeforeFirstSend ==
  FanoutStarted
    => LET task == tasks'[Len(tasks')]
           a == task.steamId
       IN /\ task.results = <<>>
          /\ Len(task.invoked) <= 1
          /\ a \in DOMAIN steam_cache' /\ a \in DOMAIN rate_limits'
          /\ Reflects(steam_cache'[a], task.presenceData)
          /\ steam_cache'[a].last_updated = task.time
          /\ rate_limits'[a].last_update = task.time

\* The rate limit is never charged in a run that has not written the cache:
\* a run that ends at recordUpdate has written the cache only.
C21_CacheThenRateLimit ==
  /\ rate_limits' # rate_limits
       => \E a \in DOMAIN rate_limits' :
            /\ rate_limits'[a].last_update = now'
            /\ a \in DOMAIN steam_cache'
            /\ steam_cache'[a].last_updated = now'
  /\ (ThrowStep /\ last'.failing = "recordUpdate")
       => /\ rate_limits' = rate_limits
          /\ \E a \in DOMAIN steam_cache' : steam_cache'[a].last_updated = now'

\* No row disappears or goes back, and a returning send changes neither.
C21_NeverUndone ==
  /\ \A a \in DOMAIN rate_limits :
       /\ a \in DOMAIN rate_limits'
       /\ rate_limits'[a].last_update >= rate_limits[a].last_update
       /\ rate_limits'[a].update_count >= rate_limits[a].update_count
  /\ \A a \in DOMAIN steam_cache :
       /\ a \in DOMAIN steam_cache'
       /\ steam_cache'[a].last_updated >= steam_cache[a].last_updated
  /\ SendStep => (steam_cache' = steam_cache /\ rate_limits' = rate_limits)

\* C21: for an eligible changed event the cache row and the rate-limit row
\* are both written before the first send is issued, the cache first, and
\* nothing that happens while the sends are awaited takes them back.
C21_CommitBeforeFanout ==
  [][C21_BothBeforeFirstSend /\ C21_CacheThenRateLimit /\ C21_NeverUndone]_vars

\* Every send of a fanout to two destinations failed; both rows of the event
\* are in the store.
C21_Witness ==
  \E i \in DOMAIN tasks :
    /\ tasks[i].results = <<"false", "false">>
    /\ tasks[i].status = "done"
    /\ Reflects(steam_cache[tasks[i].steamId], tasks[i].presenceData)
    /\ rate_limits[tasks[i].steamId].last_update = tasks[i].time
    /\ rate_limits[tasks[i].steamId].update_count = 1


\* --------------------------------------------- the pipeline and a shutdown
\* The running bot with presence events, returning sends, connection drops
\* and a termination signal. Steam delivers 'user' events while the session
\* is online; nothing runs after process.exit.
StopNext ==
  \/ \E s \in SteamIds, u \in RawUsers, t \in Times :
        Alive /\ steam.session = "online" /\ OnUser(s, u, t)
  \/ \E i \in 1..MaxSteps, o \in DeliveryOutcomes : Alive /\ SendReturn(i, o)
  \/ OnDisconnected
  \/ OnRelogin
  \/ OnLoggedOn
  \/ \E signal \in Signals : OnSignal(signal)
  \/ \E ok \in BOOLEAN : OnDestroyed(ok)

SpecStop == FaultInit /\ [][StopNext]_vars

\* ------------------------------------------------------------------ C22
\* C22: once the shutdown sequence has begun no new presence event is
\* accepted for processing, and the notifier and the store are not closed
\* while the fanout of an accepted event is still in flight.
C22_GracefulStop ==
  [][/\ (UserStep /\ bot.isShuttingDown) => (db' = db /\ tasks' = tasks)
     /\ (/\ Len(process'.teardown) > Len(process.teardown)
         /\ process'.teardown[Len(process'.teardown)] \in {"destroy", "close"})
          => \A i \in DOMAIN tasks : tasks[i].status # "awaiting"]_vars


\* ------------------------------------------------ the friendship set alone
\* The relationship events of the running bot, each with its inputs kept in
\* last, and the drops and relogins of the session.
MaxSyncs == 2

\* The linked users handleFriendsListLoaded warns about.
notFriends(cache) == {m \in getAllMappings : m.steam_id \notin cache}

\* Faulty variant: the links of accounts that are not friends are removed.
handleFriendsListLoaded_Unlinks(cache) ==
  /\ user_mappings' = user_mappings \ notFriends(cache)
  /\ UNCHANGED <<server_configs, rate_limits, steam_cache>>

\* handleFriendsListLoaded: one read of the links and log lines.
handleFriendsListLoaded(cache) ==
  /\ user_mappings' = user_mappings
  /\ UNCHANGED <<server_configs, rate_limits, steam_cache>>

\* 'friendsList' with the call it ends with: updateFriendsCache, then
\* eventHandlers.friendsListLoaded(this.friendsCache).
OnFriendsListLoaded(myFriends) ==
  /\ Alive
  /\ steam.session = "online"
  /\ bot.loaded < MaxSyncs
  /\ friendsCache' = updateFriendsCache(myFriends)
  /\ handleFriendsListLoaded(friendsCache')
  /\ bot' = [bot EXCEPT !.loaded = @ + 1]
  /\ last' = [op |-> "friendsList", myFriends |-> myFriends,
              warned |-> notFriends(friendsCache')]
  /\ UNCHANGED <<now, tasks, steps, config, pc, steam, process>>

\* 'friendRelationship' for one account.
OnRelationshipChanged(steamId, relationship) ==
  /\ Alive
  /\ steam.session = "online"
  /\ friendsCache' = friendRelationship(steamId, relationship)
  /\ last' = [op |-> "friendRelationship", steamId |-> steamId,
              relationship |-> relationship]
  /\ UNCHANGED <<db, now, tasks, steps, config, pc, bot, steam, process>>

FriendsNext ==
  \/ \E myFriends \in [SteamIds -> Relationships] : OnFriendsListLoaded(myFriends)
  \/ \E s \in SteamIds, r \in Relationships : OnRelationshipChanged(s, r)
  \/ OnDisconnected
  \/ OnRelogin
  \/ OnLoggedOn

SpecFriends == Init /\ [][FriendsNext]_vars

\* ------------------------------------------------------------------ C23
DropStep == last'.op = "disconnected"

\* C23: a drop of the Steam connection sets the online flag to false and
\* leaves the friendship set as it was; only a relationship event changes
\* the set afterwards.
C23_DropKeepsFriends ==
  [][/\ DropStep => (/\ ~steam'.isLoggedIn
                     /\ friendsCache' = friendsCache
                     /\ \A a \in SteamIds :
                          (a \in friendsCache') = isFriend(a))
     /\ friendsCache' # friendsCache
          => last'.op \in {"friendsList", "friendRelationship"}]_vars

\* The connection has dropped with both accounts in the friendship set.
C23_Witness ==
  /\ last.op = "disconnected"
  /\ ~steam.isLoggedIn
  /\ friendsCache = SteamIds


\* ------------------------------------------------------------------ C24
\* C24: an account is a friend exactly when the most recent relationship
\* reported for it is Friend: a full sync leaves exactly the accounts whose
\* relationship is Friend, a change to Friend adds the account and a change
\* to any other relationship removes it.
C24_FriendIffLatestIsFriend ==
  [][/\ last'.op = "friendsList"
          => friendsCache' = {a \in SteamIds : last'.myFriends[a] = "Friend"}
     /\ last'.op = "friendRelationship"
          => /\ (last'.steamId \in friendsCache') = (last'.relationship = "Friend")
             /\ friendsCache' \ {last'.steamId} = friendsCache \ {last'.steamId}]_vars

\* ------------------------------------------------------------------ C25
FriendsListStep == last'.op = "friendsList"

\* C25 as stated: friendsListLoaded is delivered at most once, and handling
\* it changes no record.
C25_LoadedOnce ==
  /\ [](bot.loaded <= 1)
  /\ [][FriendsListStep => db' = db]_vars

\* C25: friendsListLoaded is delivered after every full sync, with the set
\* the sync has just built; handling it warns about the linked accounts that
\* are not in the set and changes no record, no fanout and no session state.
C25_LoadedEverySync ==
  [][FriendsListStep
       => /\ bot'.loaded = bot.loaded + 1
          /\ last'.warned = {m \in user_mappings : m.steam_id \notin friendsCache'}
          /\ db' = db
          /\ tasks' = tasks
          /\ steam' = steam]_vars

\* The second full sync has been delivered too, and it warned about a link.
C25_Witness ==
  /\ last.op = "friendsList"
  /\ bot.loaded = 2
  /\ last.warned # {}


\* ------------------------------------------------- login() with the clock
\* The start of the process up to the end of login(), with time passing
\* between the logOn call and the challenges.
LoginTimes == {0, TotpWindow, 2 * TotpWindow}

Tick(t) ==
  /\ Alive
  /\ t > now
  /\ now' = t
  /\ UNCHANGED <<db, friendsCache, tasks, steps, last, life>>

LoginNext ==
  \/ start
  \/ OnLoggedOn
  \/ \E e \in EResults : OnSteamError(e)
  \/ \E w \in BOOLEAN : OnSteamGuard(w)
  \/ \E t \in LoginTimes : Tick(t)

SpecLogin == LifeInit /\ [][LoginNext]_vars

\* ------------------------------------------------------------------ C26
LogOnStep == last'.op = "start()" /\ steam'.logOns = steam.logOns + 1

\* C26: with a seed, the code in the logOn options and the code of every
\* challenge response is the one generated from the seed at the time of
\* that submission; a code submitted earlier is not submitted again once
\* its time window has passed.
C26_CodeDerivedAtSubmission ==
  [][config.sharedSecret
       => /\ LogOnStep => steam'.twoFactorCode = now' \div TotpWindow
          /\ (GuardStep /\ steam'.codes = steam.codes + 1)
               => steam'.callbackCode = now' \div TotpWindow
          /\ ~GuardStep => steam'.callbackCode = steam.callbackCode
          /\ ~LogOnStep => steam'.twoFactorCode = steam.twoFactorCode]_vars

\* A challenge in a later time window than the logOn call was answered with
\* the code of its own window.
C26_Witness ==
  /\ config.sharedSecret
  /\ last.op = "steamGuard"
  /\ steam.codes >= 1
  /\ steam.callbackCode = now \div TotpWindow
  /\ steam.callbackCode # steam.twoFactorCode


\* ------------------------------------------------------------------ C27
UnlinkStep == steps' = steps + 1 /\ last'.op = "unlink"

\* No step takes a cache row or a rate-limit row away.
C27_RowsKept ==
  /\ DOMAIN steam_cache \subseteq DOMAIN steam_cache'
  /\ DOMAIN rate_limits \subseteq DOMAIN rate_limits'

\* An unlink removes the caller's link and nothing else.
C27_UnlinkOnlyOwnLink ==
  UnlinkStep
    => /\ user_mappings' = {m \in user_mappings : m.discord_id # last'.discordId}
       /\ server_configs' = server_configs
       /\ steam_cache' = steam_cache
       /\ rate_limits' = rate_limits
       /\ friendsCache' = friendsCache
       /\ tasks' = tasks
       /\ getUserMapping(last'.discordId) = {}
            => (user_mappings' = user_mappings /\ last'.reply = "noLink")

\* C27: no operation deletes a cache row or a rate-limit row; an unlink
\* removes the caller's link only, and for a user without a link it
\* changes nothing.
C27_UnlinkLeavesRest ==
  [][C27_RowsKept /\ C27_UnlinkOnlyOwnLink]_vars

\* A user was unlinked while another link, and the cache and rate-limit rows
\* of an account, were in the store: they are still there.
C27_Witness ==
  /\ last.op = "unlink"
  /\ last.reply = "unlinked"
  /\ user_mappings # {}
  /\ steam_cache # <<>>
  /\ rate_limits # <<>>


\* ------------------------------------------------------------------ C28
\* The name of the presence state of a cache row, and the activity of the
\* row when it differs from the current one.
RowStateName(row) == OrStr(stateNames(row.persona_state), "Unknown")
RowActivity(row) == OrStr(row.game_name, NULL)

\* C28: the notifier receives the new snapshot together with the cache entry
\* as it was before this event's upsert (none when the account had no entry),
\* and the 'was X' text and the previous-activity text of the notification
\* name the presence state and the activity of that entry.
C28_PreviousRelayed ==
  /\ [][FanoutStarted
          => LET task == tasks'[Len(tasks')]
             IN /\ task.previousState = getSteamCache(task.steamId)
                /\ task.presenceData = Snapshot(last')]_vars
  /\ [](\A i \in DOMAIN tasks :
          LET embed == createPresenceEmbed(tasks[i].presenceData, tasks[i].previousState)
          IN \A row \in tasks[i].previousState :
               /\ embed.was = IF RowStateName(row) # embed.status
                                THEN RowStateName(row) ELSE NULL
               /\ (RowActivity(row) # NULL /\ RowActivity(row) # embed.playing)
                    => RowActivity(row) \in {embed.previously, embed.stopped})


\* ------------------------------------------------------------------ C29
\* The run that passes the check is the run that charges: when it ends the
\* account is in cooldown, one update more is counted, and no other run
\* changes a rate-limit record.
C29_ChargedInSameRun ==
  /\ FanoutStarted
       => LET a == tasks'[Len(tasks')].steamId
          IN /\ ~InCooldown(a, now')
             /\ a \in DOMAIN rate_limits'
             /\ now' - rate_limits'[a].last_update < CooldownSeconds
             /\ rate_limits'[a].update_count =
                  (IF a \in DOMAIN rate_limits THEN rate_limits[a].update_count ELSE 0) + 1
  /\ rate_limits' # rate_limits => FanoutStarted

\* Two fanouts for one account that are awaited at the same time were
\* started a full cooldown apart.
C29_OverlappingApart ==
  \A i, j \in DOMAIN tasks :
    (/\ i < j
     /\ tasks[i].steamId = tasks[j].steamId
     /\ tasks[i].status = "awaiting"
     /\ tasks[j].status = "awaiting")
      => tasks[j].time - tasks[i].time >= CooldownSeconds

\* C29: the eligibility check and the charge of the rate limit are one step
\* for every other handler: an event for the same account that is handled
\* while the sends of the first are awaited finds the charge made, so two
\* overlapping handler runs in one cooldown window never both notify.
C29_CheckAndChargeAtomic ==
  [](C29_OverlappingApart) /\ [][C29_ChargedInSameRun]_vars

\* While the sends of a notification were awaited, a changed event for the
\* same account arrived inside the cooldown window: it was cached and
\* started no fanout, and one update is counted.
C29_Witness ==
  /\ last.op = "user"
  /\ Len(tasks) = 1
  /\ tasks[1].steamId = last.steamId
  /\ tasks[1].status = "awaiting"
  /\ now = tasks[1].time + CooldownSeconds - 1
  /\ InCooldown(last.steamId, now)
  /\ rate_limits[last.steamId].update_count = 1
  /\ tasks[1].presenceData # Snapshot(last)
  /\ Reflects(steam_cache[last.steamId], Snapshot(last))


\* ------------------------------------------------------------------ C30
\* The fanouts started for an account, in the order they were started.
FanoutsOf(steamId) == {i \in DOMAIN tasks : tasks[i].steamId = steamId}

C32_FlagTracksSession ==
  /\ []((Alive /\ ~bot.isShuttingDown)
          => (steam.isLoggedIn <=> steam.session = "online"))
  /\ [][(/\ ~bot.isShuttingDown /\ bot'.isShuttingDown
         /\ steam.session = "online")
          => /\ Len(process'.teardown) > Len(process.teardown)
             /\ \E i \in DOMAIN process'.teardown : process'.teardown[i] = "logOff"]_vars


\* ------------------------------------------------ start-up with its events
\* start() from its first line to the running bot, with the Steam events
\* that arrive once the session is online: the handlers of
\* setupEventHandlers are attached before login() is called.
StartupNext ==
  \/ start
  \/ OnLoggedOn
  \/ \E ready \in BOOLEAN : OnDiscordLogin(ready)
  \/ \E ok \in BOOLEAN : OnCommandsRegistered(ok)
  \/ \E myFriends \in [SteamIds -> Relationships] :
        Alive /\ steam.session = "online" /\ OnFriendsList(myFriends)
  \/ \E s \in SteamIds, u \in RawUsers, t \in Times :
        Alive /\ steam.session = "online" /\ OnUser(s, u, t)
  \/ \E i \in 1..MaxSteps, o \in DeliveryOutcomes : Alive /\ SendReturn(i, o)

SpecStartup == LifeInit /\ [][StartupNext]_vars

\* ------------------------------------------------------------------ C31
\* C31: no presence event is taken into the pipeline before the notifier
\* has finished logging in: no eligible change is written to the cache and
\* charged against the rate limit, with its fanout started, before then.
C31_NoAdmissionBeforeReady ==
  [][FanoutStarted
       => /\ bot.discordManager = "ready"
          /\ pc \notin {"awaitSteamLogin", "awaitDiscordLogin"}]_vars

====
